---- MODULE Spec2Model ----
(***************************************************************************)
(* StockFlow: the stock tables (stocks, stock_requests, stock_history)     *)
(* and the HTTP handlers of server/routes.ts that change them, over the    *)
(* data-access functions of server/storage.ts.                             *)
(*                                                                         *)
(* Identifiers are UUIDs in the program; here a stock id and a request id  *)
(* are the ordinal of the insert that made them, so an id is never reused. *)
(* Timestamps (createdAt, updatedAt) and the descriptive stock columns     *)
(* (name, code, description, imageUrl, category) are not represented.      *)
(***************************************************************************)
EXTENDS Integers, Sequences, FiniteSets, TLC

(* ---------------- bounds of the explored instance ---------------- *)
MaxStocks == 1
MaxRequests == 1
MaxPending == 2
MaxHistory == 2
MaxQty == 2
MaxAdjust == 1
MaxReqQty == 1
MaxHandlers == 2
MaxConcQty == 1

(* ---------------- inputs ---------------- *)
Admins == {"a1"}
Users == {"u1"}
Null == "null"
\* adminNotes of the request body: absent (undefined) or a text
AdminNotes == {"undefined", "note"}
\* the ids a client can name: every existing row and one id that names no row
StockIds(st) == DOMAIN st \cup {Cardinality(DOMAIN st) + 1}
RequestIds(rq) == DOMAIN rq \cup {Cardinality(DOMAIN rq) + 1}
\* quantity column values a client can post for a new stock item
StockQtys == (0 - 1)..MaxQty
\* requested quantities a client can post (the insert schema is integer only)
ReqQtys == (0 - 1)..MaxReqQty
\* the JSON body of a create-request call: the stock item and the quantity, and
\* possibly a userId and a status of the client's choosing
RequestBodies(st) ==
    {[stockId |-> s, quantity |-> q] : s \in StockIds(st), q \in ReqQtys}
    \cup {[stockId |-> s, quantity |-> q, userId |-> a, status |-> "approved"] :
             s \in DOMAIN st, q \in {1}, a \in Admins}
\* what a client sends as credentials: nothing, a token that does not verify, or
\* the token of a user or of an admin
Tokens == {"none", "forged"} \cup Users \cup Admins
\* the JSON body of a stock update: any subset of the columns, here quantity or none
StockBodies == {[f \in {} |-> 0]} \cup {[quantity |-> q] : q \in StockQtys}
ChangeTypes == {"added", "removed"}
AdjustQtys == 1..MaxAdjust
Comments == {"damaged"}
\* the JSON body of an adjust-quantity call; any of its fields can be absent
AdjustBody(changeType, quantity, comment) ==
    [changeType |-> changeType, quantity |-> quantity, comment |-> comment]
Without(body, field) == [f \in DOMAIN body \ {field} |-> body[f]]
ValidBodies ==
    {AdjustBody(c, q, m) : c \in ChangeTypes, q \in AdjustQtys, m \in Comments}
\* bodies with one field absent or unusable, and the empty body
InvalidBodies ==
    LET b == AdjustBody("removed", 1, "damaged")
    IN {Without(b, "changeType"), [b EXCEPT !.changeType = "transfer"],
        Without(b, "quantity"), [b EXCEPT !.quantity = 0], [b EXCEPT !.quantity = 0 - 1],
        Without(b, "comment"), [b EXCEPT !.comment = ""], [b EXCEPT !.comment = "  "],
        [f \in {} |-> 0]}
AdjustBodies == ValidBodies \cup InvalidBodies

\* the tables, the handler invocations in flight, the module-level state of the
\* server process, and the last response sent
VARIABLES stocks, stockRequests, stockHistory, handlers, users, server, res

vars == <<stocks, stockRequests, stockHistory, handlers, users, server, res>>

(* ---------------- storage.ts ---------------- *)

\* getStockById: the row exists
hasStock(st, id) == id \in DOMAIN st

\* getStockRequests().find(r => r.id === requestId): the row exists
hasRequest(rq, id) == id \in DOMAIN rq

\* UPDATE stocks SET quantity = newQuantity WHERE id = id
updateStockQuantity(st, id, newQuantity) ==
    [s \in DOMAIN st |-> IF s = id THEN [st[s] EXCEPT !.quantity = newQuantity] ELSE st[s]]

\* UPDATE stocks SET ...stock WHERE id = id, called with {quantity}
updateStock(st, id, newQuantity) ==
    [s \in DOMAIN st |-> IF s = id THEN [st[s] EXCEPT !.quantity = newQuantity] ELSE st[s]]

updateRequestStatusResetNotes(rq, id, status, adminNotes, approvedBy) ==
    [r \in DOMAIN rq |->
        IF r = id
        THEN [rq[r] EXCEPT !.status = status,
                           !.adminNotes = IF adminNotes = "undefined" THEN Null ELSE adminNotes,
                           !.approvedBy = approvedBy]
        ELSE rq[r]]

\* UPDATE stock_requests SET status, adminNotes, approvedBy WHERE id = id;
\* a column whose value is undefined is left out of the SET
updateRequestStatus(rq, id, status, adminNotes, approvedBy) ==
    [r \in DOMAIN rq |->
        IF r = id
        THEN [rq[r] EXCEPT !.status = status,
                           !.adminNotes = IF adminNotes = "undefined" THEN @ ELSE adminNotes,
                           !.approvedBy = approvedBy]
        ELSE rq[r]]

\* INSERT INTO stock_history
createStockHistory(h, row) == Append(h, row)

\* INSERT INTO stock_requests: a column the values do not name takes its default
createStockRequest(rq, request) ==
    [r \in DOMAIN rq \cup {Cardinality(DOMAIN rq) + 1} |->
        IF r \in DOMAIN rq THEN rq[r]
        ELSE [userId |-> request.userId, stockId |-> request.stockId,
              quantity |-> request.quantity,
              status |-> IF "status" \in DOMAIN request THEN request.status
                         ELSE "pending",
              adminNotes |-> Null, approvedBy |-> Null]]

insertStockRequestSchemaKeepAll(data) == data

\* insertStockRequestSchema.parse: the schema omits status, and zod drops the keys
\* a schema does not name
insertStockRequestSchema(data) == [f \in DOMAIN data \ {"status"} |-> data[f]]

\* DELETE FROM stocks WHERE id = id
deleteStock(st, id) == [s \in DOMAIN st \ {id} |-> st[s]]

\* gen_random_uuid(): an id no stock row has had
NextStockId(st, h) ==
    LET used == DOMAIN st \cup {h[i].stockId : i \in 1..Len(h)} \cup {0}
    IN 1 + CHOOSE m \in used : \A u \in used : u <= m

\* INSERT INTO stocks
insertStock(st, id, quantity) ==
    [s \in DOMAIN st \cup {id} |-> IF s = id THEN [quantity |-> quantity] ELSE st[s]]

createStockRowEmpty(id, quantity) ==
    [stockId |-> id, changeType |-> "added", quantity |-> 0,
     userId |-> Null, requestId |-> 0, notes |-> "Initial stock creation"]

\* the history row createStock writes
createStockRow(id, quantity) ==
    [stockId |-> id, changeType |-> "added", quantity |-> quantity,
     userId |-> Null, requestId |-> 0, notes |-> "Initial stock creation"]

(* ---------------- routes.ts: pieces of the handlers ---------------- *)

insufficientStockOffByOne(stock, request) == stock.quantity + 1 < request.quantity

\* approve: stock.quantity < request.quantity
insufficientStock(stock, request) == stock.quantity < request.quantity

approveNewQuantityKept(stock, request) == stock.quantity

\* approve: newQuantity = stock.quantity - request.quantity
approveNewQuantity(stock, request) == stock.quantity - request.quantity

approveRowUnsigned(request, requestId) ==
    [stockId |-> request.stockId, changeType |-> "request_approved",
     quantity |-> request.quantity, userId |-> request.userId,
     requestId |-> requestId, notes |-> "Request approved by admin"]

\* approve: the history row
approveRow(request, requestId) ==
    [stockId |-> request.stockId, changeType |-> "request_approved",
     quantity |-> 0 - request.quantity, userId |-> request.userId,
     requestId |-> requestId, notes |-> "Request approved by admin"]

adjustmentAmountUnsigned(changeType, quantity) == quantity

\* adjust: adjustmentAmount = changeType === 'added' ? quantity : -quantity
adjustmentAmount(changeType, quantity) ==
    IF changeType = "added" THEN quantity ELSE 0 - quantity

invalidAdjustmentOffByOne(newQuantity) == newQuantity < 0 - 1

\* adjust: newQuantity < 0
invalidAdjustment(newQuantity) == newQuantity < 0

adjustRowSigned(id, changeType, quantity, userId, comment) ==
    [stockId |-> id, changeType |-> changeType,
     quantity |-> adjustmentAmount(changeType, quantity),
     userId |-> userId, requestId |-> 0, notes |-> comment]

\* adjust: the history row
adjustRow(id, changeType, quantity, userId, comment) ==
    [stockId |-> id, changeType |-> changeType, quantity |-> quantity,
     userId |-> userId, requestId |-> 0, notes |-> comment]

\* what a handler leaves behind: the tables and the HTTP status
Out(st, rq, h, status) ==
    [stocks |-> st, stockRequests |-> rq, stockHistory |-> h, status |-> status]

(* fail = 0: every storage call succeeds; fail = k: the k-th storage call  *)
(* the handler makes throws, and the catch block answers 500.              *)

approveHandlerCompensating(st, rq, h, requestId, adminId, adminNotes, fail) ==
    IF fail = 1 THEN Out(st, rq, h, 500)
    ELSE IF ~hasRequest(rq, requestId) THEN Out(st, rq, h, 404)
    ELSE IF fail = 2 THEN Out(st, rq, h, 500)
    ELSE IF ~hasStock(st, rq[requestId].stockId) THEN Out(st, rq, h, 404)
    ELSE IF insufficientStock(st[rq[requestId].stockId], rq[requestId])
         THEN Out(st, rq, h, 400)
    ELSE IF fail \in 3..5 THEN Out(st, rq, h, 500)
    ELSE
      LET request == rq[requestId]
          newQuantity == approveNewQuantity(st[request.stockId], request)
          st1 == updateStockQuantity(st, request.stockId, newQuantity)
          rq1 == updateRequestStatus(rq, requestId, "approved", adminNotes, adminId)
          h1 == createStockHistory(h, approveRow(request, requestId))
      IN Out(st1, rq1, h1, 200)

approveHandlerNoStockLookup(st, rq, h, requestId, adminId, adminNotes, fail) ==
    IF fail = 1 THEN Out(st, rq, h, 500)
    ELSE IF ~hasRequest(rq, requestId) THEN Out(st, rq, h, 404)
    ELSE IF fail = 2 THEN Out(st, rq, h, 500)
    ELSE IF fail = 3 THEN Out(st, rq, h, 500)
    ELSE
      LET request == rq[requestId]
          rq1 == updateRequestStatus(rq, requestId, "approved", adminNotes, adminId)
          h1 == createStockHistory(h, approveRow(request, requestId))
      IN IF fail = 4 THEN Out(st, rq, h, 500)
         ELSE IF fail = 5 THEN Out(st, rq1, h, 500)
         ELSE Out(st, rq1, h1, 200)

\* PUT /api/requests/:id/approve
approveHandler(st, rq, h, requestId, adminId, adminNotes, fail) ==
    IF fail = 1 THEN Out(st, rq, h, 500)
    ELSE IF ~hasRequest(rq, requestId) THEN Out(st, rq, h, 404)
    ELSE IF fail = 2 THEN Out(st, rq, h, 500)
    ELSE IF ~hasStock(st, rq[requestId].stockId) THEN Out(st, rq, h, 404)
    ELSE IF insufficientStock(st[rq[requestId].stockId], rq[requestId])
         THEN Out(st, rq, h, 400)
    ELSE IF fail = 3 THEN Out(st, rq, h, 500)
    ELSE
      LET request == rq[requestId]
          newQuantity == approveNewQuantity(st[request.stockId], request)
          st1 == updateStockQuantity(st, request.stockId, newQuantity)
          rq1 == updateRequestStatus(rq, requestId, "approved", adminNotes, adminId)
          h1 == createStockHistory(h, approveRow(request, requestId))
      IN IF fail = 4 THEN Out(st1, rq, h, 500)
         ELSE IF fail = 5 THEN Out(st1, rq1, h, 500)
         ELSE Out(st1, rq1, h1, 200)

\* PUT /api/requests/:id/deny
denyHandler(st, rq, h, requestId, adminId, adminNotes, fail) ==
    IF fail = 1 THEN Out(st, rq, h, 500)
    ELSE Out(st, updateRequestStatus(rq, requestId, "denied", adminNotes, adminId), h, 200)

\* PATCH /api/admin/stocks/:id/adjust-quantity, from the stock lookup on
adjustHandler(st, rq, h, id, changeType, quantity, comment, userId, fail) ==
    IF fail = 1 THEN Out(st, rq, h, 500)
    ELSE IF ~hasStock(st, id) THEN Out(st, rq, h, 404)
    ELSE
      LET newQuantity == st[id].quantity + adjustmentAmount(changeType, quantity)
          st1 == updateStock(st, id, newQuantity)
          h1 == createStockHistory(h, adjustRow(id, changeType, quantity, userId, comment))
      IN IF invalidAdjustment(newQuantity) THEN Out(st, rq, h, 400)
         ELSE IF fail = 2 THEN Out(st, rq, h, 500)
         ELSE IF fail = 3 THEN Out(st1, rq, h, 500)
         ELSE IF fail = 4 THEN Out(st1, rq, h1, 500)
         ELSE Out(st1, rq, h1, 200)

\* comment.trim(): the comments of the inputs without their surrounding blanks
trim(comment) == IF comment = "  " THEN "" ELSE comment

\* adjust: !changeType || !['added', 'removed'].includes(changeType)
invalidChangeType(body) ==
    \/ "changeType" \notin DOMAIN body
    \/ body.changeType \notin {"added", "removed"}

invalidQuantityNegativeOnly(body) ==
    \/ "quantity" \notin DOMAIN body
    \/ body.quantity < 0

\* adjust: !quantity || quantity <= 0
invalidQuantity(body) ==
    \/ "quantity" \notin DOMAIN body
    \/ body.quantity = 0
    \/ body.quantity <= 0

\* adjust: !comment || comment.trim() === ''
invalidComment(body) ==
    \/ "comment" \notin DOMAIN body
    \/ body.comment = ""
    \/ trim(body.comment) = ""

\* PATCH /api/admin/stocks/:id/adjust-quantity: the input validation, then the rest
patchAdjustQuantity(st, rq, h, id, body, userId, fail) ==
    IF invalidChangeType(body) THEN Out(st, rq, h, 400)
    ELSE IF invalidQuantity(body) THEN Out(st, rq, h, 400)
    ELSE IF invalidComment(body) THEN Out(st, rq, h, 400)
    ELSE adjustHandler(st, rq, h, id, body.changeType, body.quantity, body.comment,
                       userId, fail)

\* POST /api/admin/stocks: storage.createStock inserts the row, then the history row
createStockHandler(st, rq, h, id, quantity, fail) ==
    IF fail = 1 THEN Out(st, rq, h, 500)
    ELSE IF fail = 2 THEN Out(insertStock(st, id, quantity), rq, h, 500)
    ELSE Out(insertStock(st, id, quantity), rq,
             createStockHistory(h, createStockRow(id, quantity)), 200)

\* POST /api/requests: parse({...req.body, userId: req.user.id})
requestDataOf(body, userId) ==
    insertStockRequestSchema([f \in DOMAIN body \cup {"userId"} |->
                                 IF f = "userId" THEN userId ELSE body[f]])

\* POST /api/requests, called by the authenticated user userId
createRequestHandler(st, rq, h, userId, body, fail) ==
    LET requestData == requestDataOf(body, userId)
    IN IF fail = 1 THEN Out(st, rq, h, 500)
       ELSE IF ~hasStock(st, requestData.stockId) THEN Out(st, rq, h, 404)
       ELSE IF st[requestData.stockId].quantity < requestData.quantity
            THEN Out(st, rq, h, 400)
       ELSE IF fail = 2 THEN Out(st, rq, h, 500)
       ELSE Out(st, createStockRequest(rq, requestData), h, 200)

\* PUT /api/admin/stocks/:id: storage.updateStock with the parsed partial body
updateStockHandler(st, rq, h, id, body, fail) ==
    IF fail = 1 THEN Out(st, rq, h, 500)
    ELSE Out(IF "quantity" \in DOMAIN body THEN updateStock(st, id, body.quantity) ELSE st,
             rq, h, 200)

deleteStockHandlerClosesRequests(st, rq, h, id, fail) ==
    IF fail = 1 THEN Out(st, rq, h, 500)
    ELSE Out(deleteStock(st, id),
             [r \in DOMAIN rq |-> IF rq[r].stockId = id /\ rq[r].status = "pending"
                                  THEN [rq[r] EXCEPT !.status = "denied"] ELSE rq[r]],
             h, 200)

deleteStockHandlerCascade(st, rq, h, id, fail) ==
    IF fail = 1 THEN Out(st, rq, h, 500)
    ELSE Out(deleteStock(st, id), rq, SelectSeq(h, LAMBDA row : row.stockId # id), 200)

\* DELETE /api/stocks/:id
deleteStockHandler(st, rq, h, id, fail) ==
    IF fail = 1 THEN Out(st, rq, h, 500)
    ELSE Out(deleteStock(st, id), rq, h, 200)

(* ---------------- auth.ts: the middleware ---------------- *)
(* A middleware answers with a status, or calls next(): 0 here.            *)

\* authenticateToken: no token, a token jwt.verify refuses or whose user is not in
\* the users table -> 401; else req.user is that user
authenticateToken(token) ==
    IF token = "none" THEN 401
    ELSE IF token \notin Users \cup Admins THEN 401
    ELSE 0

requireAdminAnyUser(userId) == 0

\* requireAdmin: !req.user.is_admin -> 403
requireAdmin(userId) == IF userId \notin Admins THEN 403 ELSE 0

\* app.<method>(path, authenticateToken, requireAdmin, handler)
adminOnly(token) ==
    IF authenticateToken(token) # 0 THEN authenticateToken(token) ELSE requireAdmin(token)

approveRoute(st, rq, h, token, requestId, adminNotes, fail) ==
    IF adminOnly(token) # 0 THEN Out(st, rq, h, adminOnly(token))
    ELSE approveHandler(st, rq, h, requestId, token, adminNotes, fail)

denyRoute(st, rq, h, token, requestId, adminNotes, fail) ==
    IF adminOnly(token) # 0 THEN Out(st, rq, h, adminOnly(token))
    ELSE denyHandler(st, rq, h, requestId, token, adminNotes, fail)

adjustRoute(st, rq, h, token, id, body, fail) ==
    IF adminOnly(token) # 0 THEN Out(st, rq, h, adminOnly(token))
    ELSE patchAdjustQuantity(st, rq, h, id, body, token, fail)

createStockRoute(st, rq, h, token, id, quantity, fail) ==
    IF adminOnly(token) # 0 THEN Out(st, rq, h, adminOnly(token))
    ELSE createStockHandler(st, rq, h, id, quantity, fail)

updateStockRoute(st, rq, h, token, id, body, fail) ==
    IF adminOnly(token) # 0 THEN Out(st, rq, h, adminOnly(token))
    ELSE updateStockHandler(st, rq, h, id, body, fail)

deleteStockRoute(st, rq, h, token, id, fail) ==
    IF adminOnly(token) # 0 THEN Out(st, rq, h, adminOnly(token))
    ELSE deleteStockHandler(st, rq, h, id, fail)

\* app.post('/api/requests', authenticateToken, handler)
createRequestRoute(st, rq, h, token, body, fail) ==
    IF authenticateToken(token) # 0 THEN Out(st, rq, h, authenticateToken(token))
    ELSE createRequestHandler(st, rq, h, token, body, fail)

(* ---------------- the state machine ---------------- *)

\* the explored instance: quantities, table sizes
InBounds(out) ==
    /\ \A s \in DOMAIN out.stocks : out.stocks[s].quantity <= MaxQty
    /\ Len(out.stockHistory) <= MaxHistory

\* a handler invocation in flight: its position and the locals it has bound
NoRequest ==
    [userId |-> Null, stockId |-> 0, quantity |-> 0, status |-> Null,
     adminNotes |-> Null, approvedBy |-> Null]

Idle ==
    [pc |-> "idle", op |-> Null, id |-> 0, by |-> Null, notes |-> Null,
     changeType |-> Null, quantity |-> 0, request |-> NoRequest,
     readQuantity |-> 0, newQuantity |-> 0, status |-> 0]

\* bcrypt.hash(password, 10) and bcrypt.compare(password, hash)
hash(password) == <<"bcrypt", password>>
compare(password, password_hash) == password_hash = hash(password)

\* the users table as the workflow finds it: the admins and the users, all active
SeedUsers ==
    [u \in Users \cup Admins |-> [isAdmin |-> u \in Admins, isActive |-> TRUE,
                                  password_hash |-> hash("secret")]]

\* the process before its first request: production.ts 42-43, index.mjs 2
NotStarted ==
    [isInitialized |-> FALSE, routesInitialized |-> FALSE, initPromise |-> Null,
     registerRoutes |-> 0]

\* no response sent yet
NoResponse == [op |-> Null, status |-> 0]

Handlers == 1..MaxHandlers

Commit(out) ==
    /\ InBounds(out)
    /\ stocks' = out.stocks
    /\ stockRequests' = out.stockRequests
    /\ stockHistory' = out.stockHistory
    /\ UNCHANGED <<handlers, users, server, res>>

\* an empty database
Init ==
    /\ stocks = <<>>
    /\ stockRequests = <<>>
    /\ stockHistory = <<>>
    /\ handlers = [p \in Handlers |-> Idle]
    /\ users = SeedUsers
    /\ server = NotStarted
    /\ res = NoResponse

PostAdminStocksF(fail) ==
    \E quantity \in StockQtys :
        /\ Cardinality(DOMAIN stocks) < MaxStocks
        /\ Commit(createStockHandler(stocks, stockRequests, stockHistory,
                                     Cardinality(DOMAIN stocks) + 1, quantity, fail))

PostRequestsF(fail) ==
    \E userId \in Users, body \in RequestBodies(stocks) :
        /\ Cardinality(DOMAIN stockRequests) < MaxRequests
        /\ Commit(createRequestHandler(stocks, stockRequests, stockHistory,
                                       userId, body, fail))

PutRequestsApproveF(fail) ==
    \E requestId \in RequestIds(stockRequests), adminId \in Admins,
       adminNotes \in AdminNotes :
        Commit(approveHandler(stocks, stockRequests, stockHistory,
                              requestId, adminId, adminNotes, fail))

PutRequestsDenyF(fail) ==
    \E requestId \in RequestIds(stockRequests), adminId \in Admins,
       adminNotes \in AdminNotes :
        Commit(denyHandler(stocks, stockRequests, stockHistory,
                           requestId, adminId, adminNotes, fail))

PatchAdjustQuantityF(fail) ==
    \E id \in StockIds(stocks), body \in AdjustBodies, userId \in Admins :
        Commit(patchAdjustQuantity(stocks, stockRequests, stockHistory,
                                   id, body, userId, fail))

PostAdminStocks == PostAdminStocksF(0)
PostRequests == PostRequestsF(0)
PutRequestsApprove == PutRequestsApproveF(0)
PutRequestsDeny == PutRequestsDenyF(0)
PatchAdjustQuantity == PatchAdjustQuantityF(0)

Next ==
    \/ PostAdminStocks
    \/ PostRequests
    \/ PutRequestsApprove
    \/ PutRequestsDeny
    \/ PatchAdjustQuantity

\* the API called by one client at a time, the database always answering
Spec == Init /\ [][Next]_vars

(* ---------------- the workflow on a stocked catalogue ---------------- *)

\* the pending requests a client can have filed against the seeded stock
SeedRequests ==
    UNION {[1..n -> {[userId |-> u, stockId |-> s, quantity |-> q, status |-> "pending",
                      adminNotes |-> Null, approvedBy |-> Null] :
                     u \in Users, s \in 1..MaxStocks, q \in ReqQtys}] : n \in 0..MaxPending}

\* every stock item created with a quantity >= 0, then requests filed
InitSeeded ==
    /\ stocks \in [1..MaxStocks -> [quantity : 0..MaxQty]]
    /\ stockRequests \in SeedRequests
    /\ \A r \in DOMAIN stockRequests :
         stockRequests[r].quantity <= stocks[stockRequests[r].stockId].quantity
    /\ stockHistory = [s \in 1..MaxStocks |-> createStockRow(s, stocks[s].quantity)]
    /\ handlers = [p \in Handlers |-> Idle]
    /\ users = SeedUsers
    /\ server = NotStarted
    /\ res = NoResponse

NextWorkflow ==
    \/ PutRequestsApprove
    \/ PatchAdjustQuantity

\* only approveRequest and adjustStockQuantity, one call at a time
SpecWorkflow == InitSeeded /\ [][NextWorkflow]_vars

(* ---------------- the API over a database that can fail ---------------- *)

PutRequestsApproveFail == \E fail \in 1..5 : PutRequestsApproveF(fail)
PatchAdjustQuantityFail == \E fail \in 1..4 : PatchAdjustQuantityF(fail)

NextFail ==
    \/ PutRequestsApprove
    \/ PatchAdjustQuantity
    \/ PutRequestsApproveFail
    \/ PatchAdjustQuantityFail

\* the workflow, one call at a time, where any storage call may throw
SpecFail == InitSeeded /\ [][NextFail]_vars

(* ---------------- requests filed and approved over a longer run ---------------- *)

\* the longer run: as many rows again as there can be pending requests
CommitLong(out) ==
    /\ \A s \in DOMAIN out.stocks : out.stocks[s].quantity <= MaxQty
    /\ Len(out.stockHistory) <= MaxHistory + MaxPending + 1
    /\ Cardinality(DOMAIN out.stockRequests) <= MaxPending + 1
    /\ stocks' = out.stocks
    /\ stockRequests' = out.stockRequests
    /\ stockHistory' = out.stockHistory
    /\ UNCHANGED <<handlers, users, server, res>>

LongPostRequests ==
    \E userId \in Users, body \in RequestBodies(stocks) :
        CommitLong(createRequestHandler(stocks, stockRequests, stockHistory,
                                        userId, body, 0))

LongApprove ==
    \E requestId \in DOMAIN stockRequests, adminId \in Admins :
        CommitLong(approveHandler(stocks, stockRequests, stockHistory,
                                  requestId, adminId, "undefined", 0))

NextLong ==
    \/ LongPostRequests
    \/ LongApprove

\* users filing requests and an admin approving them, one call at a time, on a
\* stocked catalogue
SpecLong == InitSeeded /\ [][NextLong]_vars

(* ---------------- the whole API behind its middleware ---------------- *)

\* the stock ids a client can name: every id a row has had and one that none had
ApiStockIds == 1..NextStockId(stocks, stockHistory)

\* the bodies the clients of this exploration send: one unit created, requested,
\* added or removed at a time, a stock update to quantity 0 or of no column
ApiStockQtys == {1}
ApiStockBodies == {[f \in {} |-> 0], [quantity |-> 0]}
ApiRequestBodies == {[stockId |-> s, quantity |-> 1] : s \in ApiStockIds}
ApiAdminNotes == AdminNotes
ApiAdjustBodies ==
    {AdjustBody(c, 1, "damaged") : c \in ChangeTypes}
    \cup {Without(AdjustBody("removed", 1, "damaged"), "comment")}

ApiCreateStock ==
    \E token \in Tokens, quantity \in ApiStockQtys :
        /\ Cardinality(DOMAIN stocks) < MaxStocks
        /\ Commit(createStockRoute(stocks, stockRequests, stockHistory, token,
                                   NextStockId(stocks, stockHistory), quantity, 0))

ApiUpdateStock ==
    \E token \in Tokens, id \in ApiStockIds, body \in ApiStockBodies :
        Commit(updateStockRoute(stocks, stockRequests, stockHistory, token, id, body, 0))

ApiDeleteStock ==
    \E token \in Tokens, id \in ApiStockIds :
        Commit(deleteStockRoute(stocks, stockRequests, stockHistory, token, id, 0))

ApiCreateRequest ==
    \E token \in Tokens, body \in ApiRequestBodies :
        /\ Cardinality(DOMAIN stockRequests) < MaxRequests
        /\ Commit(createRequestRoute(stocks, stockRequests, stockHistory, token, body, 0))

ApiApprove ==
    \E token \in Tokens, requestId \in RequestIds(stockRequests),
       adminNotes \in ApiAdminNotes :
        Commit(approveRoute(stocks, stockRequests, stockHistory, token,
                            requestId, adminNotes, 0))

ApiDeny ==
    \E token \in Tokens, requestId \in RequestIds(stockRequests),
       adminNotes \in ApiAdminNotes :
        Commit(denyRoute(stocks, stockRequests, stockHistory, token,
                         requestId, adminNotes, 0))

ApiAdjust ==
    \E token \in Tokens, id \in ApiStockIds, body \in ApiAdjustBodies :
        Commit(adjustRoute(stocks, stockRequests, stockHistory, token, id, body, 0))

NextApi ==
    \/ ApiCreateStock
    \/ ApiUpdateStock
    \/ ApiDeleteStock
    \/ ApiCreateRequest
    \/ ApiApprove
    \/ ApiDeny
    \/ ApiAdjust

\* every state-changing route, called by any client, one call at a time
SpecApi == Init /\ [][NextApi]_vars

(* ---------------- handlers interleaved at their awaits ---------------- *)
(* Each await of a storage call is a point where another handler can run.  *)
(* A handler slot serves one call; the slots are taken in order.           *)

\* one stock item, and pending requests on it for positive quantities that
\* each fitted the item when filed
ConcRequests ==
    [1..MaxPending -> {[userId |-> u, stockId |-> 1, quantity |-> q, status |-> "pending",
                        adminNotes |-> Null, approvedBy |-> Null] :
                       u \in Users, q \in 1..MaxReqQty}]

InitConc ==
    /\ stocks \in [{1} -> [quantity : 0..MaxConcQty]]
    /\ stockRequests \in ConcRequests
    /\ \A r \in DOMAIN stockRequests : stockRequests[r].quantity <= stocks[1].quantity
    /\ stockHistory = <<createStockRow(1, stocks[1].quantity)>>
    /\ handlers = [p \in Handlers |-> Idle]
    /\ users = SeedUsers
    /\ server = NotStarted
    /\ res = NoResponse

\* the next free slot
Free(p) ==
    /\ handlers[p].pc = "idle"
    /\ \A q \in Handlers : q < p => handlers[q].pc # "idle"

Goto(p, pc) == handlers' = [handlers EXCEPT ![p].pc = pc]
Answer(p, status) == handlers' = [handlers EXCEPT ![p].pc = "done", ![p].status = status]

\* approve: the call arrives for a listed request, without adminNotes (as the admin
\* console sends it); await storage.getStockRequests(); requests.find(...)
ApproveGetStockRequests(p) ==
    \E requestId \in DOMAIN stockRequests, adminId \in Admins,
       adminNotes \in {"undefined"} :
        /\ Free(p)
        /\ handlers' = [handlers EXCEPT ![p] =
              IF hasRequest(stockRequests, requestId)
              THEN [Idle EXCEPT !.pc = "getStockById", !.op = "approve", !.id = requestId,
                                !.by = adminId, !.notes = adminNotes,
                                !.request = stockRequests[requestId]]
              ELSE [Idle EXCEPT !.pc = "done", !.op = "approve", !.id = requestId,
                                !.by = adminId, !.notes = adminNotes, !.status = 404]]
        /\ UNCHANGED <<stocks, stockRequests, stockHistory, users, server, res>>

\* approve: await storage.getStockById(request.stockId); the availability check
ApproveGetStockById(p) ==
    LET request == handlers[p].request
    IN /\ handlers[p].pc = "getStockById"
       /\ IF ~hasStock(stocks, request.stockId) THEN Answer(p, 404)
          ELSE IF insufficientStock(stocks[request.stockId], request) THEN Answer(p, 400)
          ELSE handlers' = [handlers EXCEPT
                   ![p].pc = "updateStockQuantity",
                   ![p].readQuantity = stocks[request.stockId].quantity,
                   ![p].newQuantity = approveNewQuantity(stocks[request.stockId], request)]
       /\ UNCHANGED <<stocks, stockRequests, stockHistory, users, server, res>>

\* approve: await storage.updateStockQuantity(request.stockId, newQuantity)
ApproveUpdateStockQuantity(p) ==
    /\ handlers[p].pc = "updateStockQuantity"
    /\ stocks' = updateStockQuantity(stocks, handlers[p].request.stockId,
                                     handlers[p].newQuantity)
    /\ Goto(p, "updateRequestStatus")
    /\ UNCHANGED <<stockRequests, stockHistory, users, server, res>>

\* approve: await storage.updateRequestStatus(requestId, 'approved', ...)
ApproveUpdateRequestStatus(p) ==
    /\ handlers[p].pc = "updateRequestStatus"
    /\ stockRequests' = updateRequestStatus(stockRequests, handlers[p].id, "approved",
                                            handlers[p].notes, handlers[p].by)
    /\ Goto(p, "createStockHistory")
    /\ UNCHANGED <<stocks, stockHistory, users, server, res>>

\* approve: await storage.createStockHistory(...); res.json(updatedRequest)
ApproveCreateStockHistory(p) ==
    /\ handlers[p].pc = "createStockHistory"
    /\ stockHistory' = createStockHistory(stockHistory,
                                          approveRow(handlers[p].request, handlers[p].id))
    /\ Answer(p, 200)
    /\ UNCHANGED <<stocks, stockRequests, users, server, res>>

\* adjust: the call arrives for a listed item with a valid body;
\* await storage.getStockById(id);
\* the new quantity and its check
AdjustGetStockById(p) ==
    \E id \in DOMAIN stocks, changeType \in ChangeTypes, quantity \in AdjustQtys,
       comment \in Comments, userId \in Admins :
        LET call == [Idle EXCEPT !.op = "adjust", !.id = id, !.by = userId,
                                 !.changeType = changeType, !.quantity = quantity,
                                 !.notes = comment]
        IN /\ Free(p)
           /\ handlers' = [handlers EXCEPT ![p] =
                 IF ~hasStock(stocks, id)
                 THEN [call EXCEPT !.pc = "done", !.status = 404]
                 ELSE IF invalidAdjustment(stocks[id].quantity
                                             + adjustmentAmount(changeType, quantity))
                 THEN [call EXCEPT !.pc = "done", !.status = 400]
                 ELSE [call EXCEPT !.pc = "updateStock",
                                   !.readQuantity = stocks[id].quantity,
                                   !.newQuantity = stocks[id].quantity
                                       + adjustmentAmount(changeType, quantity)]]
           /\ UNCHANGED <<stocks, stockRequests, stockHistory, users, server, res>>

\* adjust: await storage.updateStock(id, { quantity: newQuantity })
AdjustUpdateStock(p) ==
    /\ handlers[p].pc = "updateStock"
    /\ stocks' = updateStock(stocks, handlers[p].id, handlers[p].newQuantity)
    /\ Goto(p, "adjustCreateStockHistory")
    /\ UNCHANGED <<stockRequests, stockHistory, users, server, res>>

\* adjust: await storage.createStockHistory(...)
AdjustCreateStockHistory(p) ==
    LET h == handlers[p]
    IN /\ h.pc = "adjustCreateStockHistory"
       /\ stockHistory' = createStockHistory(stockHistory,
                              adjustRow(h.id, h.changeType, h.quantity, h.by, h.notes))
       /\ Goto(p, "adjustReread")
       /\ UNCHANGED <<stocks, stockRequests, users, server, res>>

\* adjust: await storage.getStockById(id); res.json(...)
AdjustReread(p) ==
    /\ handlers[p].pc = "adjustReread"
    /\ Answer(p, 200)
    /\ UNCHANGED <<stocks, stockRequests, stockHistory, users, server, res>>

ApproveStep ==
    \E p \in Handlers :
        \/ ApproveGetStockRequests(p)
        \/ ApproveGetStockById(p)
        \/ ApproveUpdateStockQuantity(p)
        \/ ApproveUpdateRequestStatus(p)
        \/ ApproveCreateStockHistory(p)

AdjustStep ==
    \E p \in Handlers :
        \/ AdjustGetStockById(p)
        \/ AdjustUpdateStock(p)
        \/ AdjustCreateStockHistory(p)
        \/ AdjustReread(p)

NextConc ==
    \/ ApproveStep
    \/ AdjustStep

\* approve and adjust handlers running concurrently on a stocked catalogue
SpecConc == InitConc /\ [][NextConc]_vars



(* ======================= properties ======================= *)

RECURSIVE JournalSum(_, _)
\* the signed total of the history rows of stock item s
JournalSum(h, s) ==
    IF h = <<>> THEN 0
    ELSE LET row == h[Len(h)]
             d == IF row.stockId # s THEN 0
                  ELSE IF row.changeType = "added" THEN row.quantity
                  ELSE IF row.changeType = "removed" THEN 0 - row.quantity
                  ELSE row.quantity
         IN JournalSum(SubSeq(h, 1, Len(h) - 1), s) + d

\* the outcome of a call in the present state, the database answering
Approve(requestId, adminId, adminNotes) ==
    approveHandler(stocks, stockRequests, stockHistory, requestId, adminId, adminNotes, 0)
Deny(requestId, adminId, adminNotes) ==
    denyHandler(stocks, stockRequests, stockHistory, requestId, adminId, adminNotes, 0)
Adjust(id, changeType, quantity, comment, userId) ==
    patchAdjustQuantity(stocks, stockRequests, stockHistory, id,
                        AdjustBody(changeType, quantity, comment), userId, 0)
AdjustWith(id, body, userId) ==
    patchAdjustQuantity(stocks, stockRequests, stockHistory, id, body, userId, 0)
Unchanged(status) == Out(stocks, stockRequests, stockHistory, status)

\* the history rows written for request r
RowsOf(r) == {i \in 1..Len(stockHistory) : stockHistory[i].requestId = r}

\* C1: starting from stock items with quantity >= 0, every stock item has
\* quantity >= 0 after any sequence of adjustStockQuantity and approveRequest calls
C1_QuantityNonNegative ==
    \A s \in DOMAIN stocks : stocks[s].quantity >= 0

\* an approval has taken the last units of an item
C1_Witness ==
    \E r \in DOMAIN stockRequests :
        /\ stockRequests[r].status = "approved"
        /\ stockRequests[r].quantity > 0
        /\ RowsOf(r) # {}
        /\ stocks[stockRequests[r].stockId].quantity = 0

\* C2 (as stated): a request's status changes only pending -> approved or
\* pending -> denied; an approved or denied request never changes status again
C2_StatusChangesOnce ==
    [][\A r \in DOMAIN stockRequests :
          stockRequests'[r].status # stockRequests[r].status
              => /\ stockRequests[r].status = "pending"
                 /\ stockRequests'[r].status \in {"approved", "denied"}]_vars

\* C3 (as stated): approveRequest on a request that is already approved or denied
\* fails or is a no-op: it changes neither the stock quantity nor the history
C3_SecondApproveNoEffect ==
    \A r \in DOMAIN stockRequests, adminId \in Admins, adminNotes \in AdminNotes :
        stockRequests[r].status # "pending"
            => /\ Approve(r, adminId, adminNotes).stocks = stocks
               /\ Approve(r, adminId, adminNotes).stockHistory = stockHistory

\* C4: approveRequest on a request whose stock item has quantity < requested
\* quantity answers 400 and leaves stock, requests and history unchanged
C4_InsufficientStockRejected ==
    \A r \in DOMAIN stockRequests, adminId \in Admins, adminNotes \in AdminNotes :
        (/\ stockRequests[r].stockId \in DOMAIN stocks
         /\ stocks[stockRequests[r].stockId].quantity < stockRequests[r].quantity)
            => Approve(r, adminId, adminNotes) = Unchanged(400)

\* a pending request, which fitted the stock when it was filed, on an item
\* whose stock has since been reduced below the request
C4_Witness ==
    \E r \in DOMAIN stockRequests :
        /\ stockRequests[r].status = "pending"
        /\ stockRequests[r].stockId \in DOMAIN stocks
        /\ stocks[stockRequests[r].stockId].quantity < stockRequests[r].quantity
        /\ Len(stockHistory) > Cardinality(DOMAIN stocks)

\* C5: a successful approveRequest on a pending request for r units of an item
\* with quantity q >= r sets the quantity to q - r, the request to approved with
\* approvedBy the admin and the given adminNotes, and appends the history row
\* (request_approved, -r, the request, the requester)
C5_ApproveEffect ==
    \A r \in DOMAIN stockRequests, adminId \in Admins, adminNotes \in AdminNotes :
        LET request == stockRequests[r]
            out == Approve(r, adminId, adminNotes)
        IN (/\ request.status = "pending"
            /\ request.stockId \in DOMAIN stocks
            /\ stocks[request.stockId].quantity >= request.quantity)
              => /\ out.status = 200
                 /\ out.stocks = [stocks EXCEPT ![request.stockId].quantity =
                                                    @ - request.quantity]
                 /\ out.stockRequests =
                      [stockRequests EXCEPT
                         ![r].status = "approved",
                         ![r].approvedBy = adminId,
                         ![r].adminNotes = IF adminNotes = "undefined" THEN @ ELSE adminNotes]
                 /\ Len(out.stockHistory) = Len(stockHistory) + 1
                 /\ SubSeq(out.stockHistory, 1, Len(stockHistory)) = stockHistory
                 /\ LET row == out.stockHistory[Len(out.stockHistory)]
                    IN /\ row.stockId = request.stockId
                       /\ row.changeType = "request_approved"
                       /\ row.quantity = 0 - request.quantity
                       /\ row.requestId = r
                       /\ row.userId = request.userId

\* a request for a positive quantity has been approved with notes, and its
\* history row is the last one written
C5_Witness ==
    \E r \in DOMAIN stockRequests :
        /\ stockRequests[r].status = "approved"
        /\ stockRequests[r].adminNotes = "note"
        /\ stockRequests[r].approvedBy \in Admins
        /\ stockRequests[r].quantity > 0
        /\ Len(stockHistory) > 0
        /\ stockHistory[Len(stockHistory)].requestId = r
        /\ stockHistory[Len(stockHistory)].quantity = 0 - stockRequests[r].quantity

\* C6 (as stated): a call of adjustStockQuantity or approveRequest that answers
\* success appends exactly one history row, and one that answers an error appends
\* none: every step that a call makes adds one row if the call answered 200 and
\* leaves the history as it was otherwise
C6_OneRowPerSuccess ==
    [][LET made(out) == /\ stocks' = out.stocks
                        /\ stockRequests' = out.stockRequests
                        /\ stockHistory' = out.stockHistory
           ok(out) == IF out.status = 200
                      THEN /\ Len(stockHistory') = Len(stockHistory) + 1
                           /\ SubSeq(stockHistory', 1, Len(stockHistory)) = stockHistory
                      ELSE stockHistory' = stockHistory
       IN /\ \A r \in RequestIds(stockRequests), adminId \in Admins,
               adminNotes \in AdminNotes, fail \in 0..5 :
                 LET out == approveHandler(stocks, stockRequests, stockHistory,
                                           r, adminId, adminNotes, fail)
                 IN made(out) => ok(out)
          /\ \A id \in StockIds(stocks), changeType \in ChangeTypes,
               quantity \in AdjustQtys, comment \in Comments, userId \in Admins,
               fail \in 0..4 :
                 LET out == patchAdjustQuantity(stocks, stockRequests, stockHistory, id,
                                                AdjustBody(changeType, quantity, comment),
                                                userId, fail)
                 IN made(out) => ok(out)]_vars

C8_QuantityJournaled ==
    \A s \in DOMAIN stocks : stocks[s].quantity = JournalSum(stockHistory, s)

\* an item whose history holds its creation and an approval (stored negative), its
\* quantity being the created quantity less the approved one
C8_Witness ==
    \E i, j \in 1..Len(stockHistory) :
        /\ stockHistory[i].changeType = "added" /\ stockHistory[i].userId = Null
        /\ stockHistory[j].changeType = "request_approved"
        /\ stockHistory[j].quantity < 0
        /\ stockHistory[j].stockId = stockHistory[i].stockId
        /\ stocks[stockHistory[i].stockId].quantity =
              stockHistory[i].quantity + stockHistory[j].quantity

\* two approve handlers p, q that both answered 200 for different requests on
\* the same item, each having read the same quantity (so both read and passed the
\* check before either wrote), the two requests together exceeding that quantity
RaceCompleted(p, q) ==
    /\ p # q
    /\ handlers[p].op = "approve" /\ handlers[q].op = "approve"
    /\ handlers[p].pc = "done" /\ handlers[q].pc = "done"
    /\ handlers[p].status = 200 /\ handlers[q].status = 200
    /\ handlers[p].id # handlers[q].id
    /\ handlers[p].request.stockId = handlers[q].request.stockId
    /\ handlers[p].readQuantity = handlers[q].readQuantity
    /\ handlers[p].request.quantity > 0 /\ handlers[q].request.quantity > 0
    /\ handlers[p].request.quantity + handlers[q].request.quantity
         > handlers[p].readQuantity

\* C9 (as stated): when two approve handlers on the same item both pass the
\* availability check before either writes, the item's quantity goes negative
C9_RaceGoesNegative ==
    \A p, q \in Handlers :
        RaceCompleted(p, q)
            => stocks[handlers[p].request.stockId].quantity < 0

\* C9 (amended): under any interleaving of the handlers' storage calls every
\* quantity stays >= 0, because each handler writes the value it computed from
\* its own checked read; the race over-allocates but never goes negative
C9_RaceKeepsNonNegative ==
    /\ \A s \in DOMAIN stocks : stocks[s].quantity >= 0
    /\ \A p \in Handlers :
         handlers[p].pc \in {"updateStockQuantity", "updateStock"}
             => handlers[p].newQuantity >= 0

\* both racing approvals succeeded, both requests are approved, and the
\* quantity left is the last write, not the quantity minus both requests
C9_Witness ==
    \E p, q \in Handlers :
        /\ RaceCompleted(p, q)
        /\ stockRequests[handlers[p].id].status = "approved"
        /\ stockRequests[handlers[q].id].status = "approved"
        /\ stocks[handlers[p].request.stockId].quantity >= 0
        /\ stocks[handlers[p].request.stockId].quantity
             > handlers[p].readQuantity - handlers[p].request.quantity
                 - handlers[q].request.quantity

\* C10: adjustStockQuantity removing more than the item's quantity answers 400
\* and leaves the stock quantity and the history unchanged
C10_InvalidAdjustmentRejected ==
    \A id \in DOMAIN stocks, quantity \in AdjustQtys, comment \in Comments,
       userId \in Admins :
        quantity > stocks[id].quantity
            => Adjust(id, "removed", quantity, comment, userId) = Unchanged(400)

\* an item emptied by a removal, from which any further removal is refused
C10_Witness ==
    \E id \in DOMAIN stocks :
        /\ stocks[id].quantity = 0
        /\ \E i \in 1..Len(stockHistory) :
             /\ stockHistory[i].stockId = id
             /\ stockHistory[i].changeType = "removed"

\* C11: a successful adjustStockQuantity(stockId, changeType, n, comment) sets the
\* quantity to current + n for added and current - n for removed, and appends one
\* history row with that changeType, quantity n (unsigned), notes = comment and no
\* requestId; nothing else changes. The call succeeds exactly when the result is >= 0
C11_AdjustEffect ==
    \A id \in DOMAIN stocks, body \in ValidBodies, userId \in Admins :
        LET out == AdjustWith(id, body, userId)
            n == body.quantity
            target == IF body.changeType = "added" THEN stocks[id].quantity + n
                      ELSE stocks[id].quantity - n
        IN /\ out.status = 200 <=> target >= 0
           /\ out.status = 200 =>
                /\ DOMAIN out.stocks = DOMAIN stocks
                /\ out.stocks[id].quantity = target
                /\ \A s \in DOMAIN stocks \ {id} : out.stocks[s] = stocks[s]
                /\ out.stockRequests = stockRequests
                /\ Len(out.stockHistory) = Len(stockHistory) + 1
                /\ SubSeq(out.stockHistory, 1, Len(stockHistory)) = stockHistory
                /\ LET row == out.stockHistory[Len(out.stockHistory)]
                   IN /\ row.stockId = id
                      /\ row.changeType = body.changeType
                      /\ row.quantity = n
                      /\ row.notes = body.comment
                      /\ row.requestId = 0

\* an item created with stock from which an admin then removed n > 0 units: the
\* row carries n unsigned and the quantity is the created quantity less n
C11_Witness ==
    \E i, j \in 1..Len(stockHistory) :
        /\ stockHistory[i].changeType = "added" /\ stockHistory[i].userId = Null
        /\ stockHistory[j].changeType = "removed" /\ stockHistory[j].userId \in Admins
        /\ stockHistory[j].stockId = stockHistory[i].stockId
        /\ stockHistory[j].quantity > 0 /\ stockHistory[j].notes \in Comments
        /\ stocks[stockHistory[i].stockId].quantity =
              stockHistory[i].quantity - stockHistory[j].quantity

\* C12: adjustStockQuantity answers 400 and changes neither stock nor history for
\* every call whose changeType is not added or removed, whose quantity is missing or
\* <= 0, or whose comment is missing, empty or blank; the checks come before the
\* stock lookup, so the answer is 400 also for an id that names no stock item
C12_ValidationRejects ==
    \A id \in StockIds(stocks), body \in AdjustBodies, userId \in Admins :
        LET badType == \/ "changeType" \notin DOMAIN body
                       \/ body.changeType \notin {"added", "removed"}
            badQuantity == \/ "quantity" \notin DOMAIN body
                           \/ body.quantity <= 0
            badComment == \/ "comment" \notin DOMAIN body
                          \/ body.comment \in {"", "  "}
        IN (badType \/ badQuantity \/ badComment) =>
              AdjustWith(id, body, userId) = Unchanged(400)

\* an item holding stock that a well-formed removal would reduce, where the same
\* call with quantity 0, with a blank comment or with no changeType is refused, on
\* the item and on an id that names none
C12_Witness ==
    \E id \in DOMAIN stocks, userId \in Admins :
        /\ stocks[id].quantity >= 1
        /\ AdjustWith(id, AdjustBody("removed", 1, "damaged"), userId).status = 200
        /\ \A body \in InvalidBodies :
             /\ AdjustWith(id, body, userId).status = 400
             /\ AdjustWith(Cardinality(DOMAIN stocks) + 1, body, userId).status = 400
        /\ \E i \in 1..Len(stockHistory) : stockHistory[i].changeType = "removed"

CreateRequest(userId, body, fail) ==
    createRequestHandler(stocks, stockRequests, stockHistory, userId, body, fail)

\* C13: a successful createStockRequest adds exactly one request, pending and owned
\* by the authenticated caller, and leaves every stock item and the history as they
\* were; a createStockRequest that answers an error adds no request
C13_CreateRequestFrame ==
    \A userId \in Users, body \in RequestBodies(stocks), fail \in 0..2 :
        LET out == CreateRequest(userId, body, fail)
            new == DOMAIN out.stockRequests \ DOMAIN stockRequests
        IN /\ out.stocks = stocks
           /\ out.stockHistory = stockHistory
           /\ \A r \in DOMAIN stockRequests :
                r \in DOMAIN out.stockRequests /\ out.stockRequests[r] = stockRequests[r]
           /\ out.status # 200 => new = {}
           /\ out.status = 200 =>
                /\ Cardinality(new) = 1
                /\ \A r \in new :
                     /\ out.stockRequests[r].status = "pending"
                     /\ out.stockRequests[r].userId = userId
                     /\ out.stockRequests[r].stockId = body.stockId
                     /\ out.stockRequests[r].quantity = body.quantity

\* a pending request of a user for units of an item that still holds its whole
\* created quantity, nothing but the creations being in the history
C13_Witness ==
    \E r \in DOMAIN stockRequests :
        /\ stockRequests[r].status = "pending"
        /\ stockRequests[r].userId \in Users
        /\ stockRequests[r].quantity > 0
        /\ stockRequests[r].stockId \in DOMAIN stocks
        /\ Len(stockHistory) = Cardinality(DOMAIN stocks)
        /\ \A i \in 1..Len(stockHistory) :
             stocks[stockHistory[i].stockId].quantity = stockHistory[i].quantity

\* C14 (as stated): createStockRequest accepts a request only if its quantity is
\* > 0, the stock item exists and holds at least the requested quantity; hence
\* every stored request has quantity > 0
C14_RequestQuantityPositive ==
    /\ \A userId \in Users, body \in RequestBodies(stocks) :
         CreateRequest(userId, body, 0).status = 200 =>
            /\ body.quantity > 0
            /\ body.stockId \in DOMAIN stocks
            /\ stocks[body.stockId].quantity >= body.quantity
    /\ \A r \in DOMAIN stockRequests : stockRequests[r].quantity > 0

\* C15 (as stated): denyRequest with a requestId that names no request answers
\* 404 NotFound and changes no state
C15_DenyUnknownNotFound ==
    \A requestId \in RequestIds(stockRequests) \ DOMAIN stockRequests,
       adminId \in Admins, adminNotes \in AdminNotes :
        Deny(requestId, adminId, adminNotes) = Unchanged(404)

\* C16: approveRequest answers 404 NotFound and changes no state when the requestId
\* names no request, and also when the request exists but its stock item does not
\* (the item was deleted after the request was filed); the request then stays as
\* it was
C16_ApproveNotFound ==
    \A requestId \in RequestIds(stockRequests), adminId \in Admins,
       adminNotes \in AdminNotes :
        (\/ requestId \notin DOMAIN stockRequests
         \/ stockRequests[requestId].stockId \notin DOMAIN stocks)
        => Approve(requestId, adminId, adminNotes) = Unchanged(404)

\* a pending request whose stock item was created, requested and then deleted
C16_Witness ==
    \E r \in DOMAIN stockRequests :
        /\ stockRequests[r].status = "pending"
        /\ stockRequests[r].stockId \notin DOMAIN stocks
        /\ \E i \in 1..Len(stockHistory) :
             stockHistory[i].stockId = stockRequests[r].stockId

RECURSIVE ApprovedTotal(_, _, _)
\* the total quantity of the approved requests among ids on stock item s
ApprovedTotal(rq, ids, s) ==
    IF ids = {} THEN 0
    ELSE LET r == CHOOSE x \in ids : TRUE
         IN (IF rq[r].stockId = s /\ rq[r].status = "approved" THEN rq[r].quantity ELSE 0)
            + ApprovedTotal(rq, ids \ {r}, s)

RECURSIVE Supplied(_, _)
\* the initial quantity of item s plus the units added less the units removed
Supplied(h, s) ==
    IF h = <<>> THEN 0
    ELSE (IF Head(h).stockId # s THEN 0
          ELSE IF Head(h).changeType = "added" THEN Head(h).quantity
          ELSE IF Head(h).changeType = "removed" THEN 0 - Head(h).quantity
          ELSE 0)
         + Supplied(Tail(h), s)

\* C17 (as stated): with approvals run one after another, of two pending requests
\* on one item that each fit its quantity but together exceed it, the one approved
\* first succeeds and the other is then refused with 400; so the total quantity of
\* the approved requests on an item never exceeds its initial quantity plus the
\* units added less the units removed
C17_NoOverAllocation ==
    /\ \A r1, r2 \in DOMAIN stockRequests, adminId \in Admins, adminNotes \in AdminNotes :
         LET a == stockRequests[r1]
             b == stockRequests[r2]
             first == Approve(r1, adminId, adminNotes)
             second == approveHandler(first.stocks, first.stockRequests,
                                      first.stockHistory, r2, adminId, adminNotes, 0)
         IN (/\ r1 # r2
             /\ a.status = "pending" /\ b.status = "pending"
             /\ a.stockId = b.stockId /\ a.stockId \in DOMAIN stocks
             /\ a.quantity <= stocks[a.stockId].quantity
             /\ b.quantity <= stocks[a.stockId].quantity
             /\ a.quantity + b.quantity > stocks[a.stockId].quantity)
            => /\ first.status = 200
               /\ second.status = 400
               /\ second.stocks = first.stocks
               /\ second.stockRequests = first.stockRequests
               /\ second.stockHistory = first.stockHistory
    /\ \A s \in DOMAIN stocks :
         ApprovedTotal(stockRequests, DOMAIN stockRequests, s) <= Supplied(stockHistory, s)

\* C18 (as stated): once a stock item exists its quantity is changed only by
\* adjustStockQuantity and approveRequest: every step that changes the quantity of
\* an item is a step an adjust-quantity or an approve call makes
C18_QuantityOnlyByWorkflow ==
    [][LET made(out) == /\ stocks' = out.stocks
                        /\ stockRequests' = out.stockRequests
                        /\ stockHistory' = out.stockHistory
       IN (\E s \in DOMAIN stocks \cap DOMAIN stocks' :
              stocks'[s].quantity # stocks[s].quantity)
          => \/ \E id \in DOMAIN stocks, body \in AdjustBodies, userId \in Admins :
                  made(AdjustWith(id, body, userId))
             \/ \E requestId \in DOMAIN stockRequests, adminId \in Admins,
                   adminNotes \in AdminNotes :
                  made(Approve(requestId, adminId, adminNotes))]_vars

\* the answers of the four workflow routes to the calls a client with this token
\* can make in the current state
ApproveAnswers(token) ==
    {approveRoute(stocks, stockRequests, stockHistory, token, requestId, adminNotes, 0) :
        requestId \in RequestIds(stockRequests), adminNotes \in AdminNotes}
DenyAnswers(token) ==
    {denyRoute(stocks, stockRequests, stockHistory, token, requestId, adminNotes, 0) :
        requestId \in RequestIds(stockRequests), adminNotes \in AdminNotes}
AdjustAnswers(token) ==
    {adjustRoute(stocks, stockRequests, stockHistory, token, id, body, 0) :
        id \in ApiStockIds, body \in AdjustBodies}
CreateRequestAnswers(token) ==
    {createRequestRoute(stocks, stockRequests, stockHistory, token, body, 0) :
        body \in RequestBodies(stocks)}

\* C19 (as stated): approve, deny, adjust quantity and create request are each
\* guarded by authentication and admin-role middleware: an unauthenticated caller
\* gets 401, an authenticated caller that is not an admin gets 403, and in both
\* cases nothing changes
C19_AllFourAdminGuarded ==
    \A token \in Tokens \ Admins :
        LET refused == Unchanged(IF token \in Users THEN 403 ELSE 401)
        IN /\ ApproveAnswers(token) = {refused}
           /\ DenyAnswers(token) = {refused}
           /\ AdjustAnswers(token) = {refused}
           /\ CreateRequestAnswers(token) = {refused}

\* C19 (amended): approve, deny and adjust quantity are guarded by authentication
\* and admin-role middleware (401 for an unauthenticated caller, 403 for a user who
\* is not an admin, nothing changed); create request is guarded by authentication
\* only: 401 and nothing changed for an unauthenticated caller, while a user who is
\* not an admin is served, the request being filed under that user's id
C19_GuardsAsRegistered ==
    /\ \A token \in Tokens \ Admins :
         LET refused == Unchanged(IF token \in Users THEN 403 ELSE 401)
         IN /\ ApproveAnswers(token) = {refused}
            /\ DenyAnswers(token) = {refused}
            /\ AdjustAnswers(token) = {refused}
    /\ \A token \in Tokens \ (Users \cup Admins) :
         CreateRequestAnswers(token) = {Unchanged(401)}
    /\ \A token \in Users, body \in RequestBodies(stocks) :
         createRequestRoute(stocks, stockRequests, stockHistory, token, body, 0)
            = CreateRequest(token, body, 0)

\* a pending request filed by a user who is not an admin, on an item that covers
\* it: an admin's approve would answer 200, the user's own approve answers 403 and
\* an approve without a valid token 401
C19_Witness ==
    \E r \in DOMAIN stockRequests, u \in Users \ Admins, a \in Admins :
        /\ stockRequests[r].status = "pending"
        /\ stockRequests[r].userId = u
        /\ stockRequests[r].quantity > 0
        /\ approveRoute(stocks, stockRequests, stockHistory, a, r, "note", 0).status = 200
        /\ approveRoute(stocks, stockRequests, stockHistory, u, r, "note", 0).status = 403
        /\ approveRoute(stocks, stockRequests, stockHistory, "none", r, "note", 0).status = 401
        /\ approveRoute(stocks, stockRequests, stockHistory, "forged", r, "note", 0).status = 401

\* C20: StockHistory is append-only: across any sequence of API calls, stock update
\* and stock deletion included, every step keeps the rows there were, unmodified
\* and in place, and at most adds rows after them
C20_HistoryAppendOnly ==
    [][/\ Len(stockHistory') >= Len(stockHistory)
       /\ SubSeq(stockHistory', 1, Len(stockHistory)) = stockHistory]_vars

\* an item was created, adjusted and then deleted: its two rows are still there
C20_Witness ==
    \E i, j \in 1..Len(stockHistory) :
        /\ i < j
        /\ stockHistory[i].stockId = stockHistory[j].stockId
        /\ stockHistory[i].stockId \notin DOMAIN stocks
        /\ stockHistory[i].notes = "Initial stock creation"
        /\ stockHistory[j].changeType = "removed"

(* ---------------- the history insert throws after the quantity write ---------------- *)

\* approve: storage.createStockHistory throws (the fifth storage call)
ApproveHistoryInsertFails == PutRequestsApproveF(5)
\* adjust: storage.createStockHistory throws (the third storage call)
AdjustHistoryInsertFails == PatchAdjustQuantityF(3)

NextPartial ==
    \/ PutRequestsApprove
    \/ PatchAdjustQuantity
    \/ ApproveHistoryInsertFails
    \/ AdjustHistoryInsertFails

\* one call at a time on one stocked item, where the history insert may throw
SpecPartial == InitConc /\ [][NextPartial]_vars

\* C21: there is no compensation on partial failure: when the history insert
\* throws after the quantity update has succeeded, approveRequest and
\* adjustStockQuantity answer 500 while the quantity stays changed (and, for
\* approveRequest, the request stays approved by the admin) and the history is
\* as it was: no row is written, no write is undone and no call is repeated
C21_NoCompensation ==
    /\ \A r \in DOMAIN stockRequests, adminId \in Admins, adminNotes \in AdminNotes :
         LET ok == Approve(r, adminId, adminNotes)
             out == approveHandler(stocks, stockRequests, stockHistory,
                                   r, adminId, adminNotes, 5)
             request == stockRequests[r]
         IN ok.status = 200
              => /\ out.status = 500
                 /\ out.stocks = [stocks EXCEPT ![request.stockId].quantity =
                                                    @ - request.quantity]
                 /\ out.stockRequests = ok.stockRequests
                 /\ out.stockRequests[r].status = "approved"
                 /\ out.stockRequests[r].approvedBy = adminId
                 /\ out.stockHistory = stockHistory
    /\ \A id \in DOMAIN stocks, body \in ValidBodies, userId \in Admins :
         LET ok == AdjustWith(id, body, userId)
             out == patchAdjustQuantity(stocks, stockRequests, stockHistory,
                                        id, body, userId, 3)
         IN ok.status = 200
              => /\ out.status = 500
                 /\ out.stocks = [stocks EXCEPT ![id].quantity =
                        @ + (IF body.changeType = "added" THEN body.quantity
                             ELSE 0 - body.quantity)]
                 /\ out.stockRequests = stockRequests
                 /\ out.stockHistory = stockHistory

\* an approval's history insert has thrown: the request for a positive quantity is
\* approved, no row references it, and the item's quantity is no longer the sum of
\* its rows
C21_Witness ==
    \E r \in DOMAIN stockRequests :
        /\ stockRequests[r].status = "approved"
        /\ stockRequests[r].quantity > 0
        /\ RowsOf(r) = {}
        /\ stocks[stockRequests[r].stockId].quantity
             # JournalSum(stockHistory, stockRequests[r].stockId)

(* ---------------- the dashboard counts ---------------- *)

MaxRows == 2
\* the low-stock threshold of getDashboardStats
LowStockThreshold == 5

\* quantities at, next to and away from the threshold
StatQtys == {0, LowStockThreshold - 1, LowStockThreshold, LowStockThreshold + 1}
Statuses == {"pending", "approved", "denied"}

\* the where clauses of the counts
pendingStatus(request) == request.status = "pending"
lowStockStrict(stock) == stock.quantity < LowStockThreshold
lowStock(stock) == stock.quantity <= LowStockThreshold

\* four select count(*) queries
getDashboardStats(st, rq, us) ==
    [totalStockItems |-> Cardinality(DOMAIN st),
     pendingRequests |-> Cardinality({r \in DOMAIN rq : pendingStatus(rq[r])}),
     lowStockItems |-> Cardinality({s \in DOMAIN st : lowStock(st[s])}),
     totalUsers |-> Cardinality(DOMAIN us)]

\* GET /api/dashboard/stats, past its middleware; fail = 1: the storage call throws
dashboardStatsHandler(st, rq, us, fail) ==
    IF fail = 1 THEN [op |-> "stats", status |-> 500]
    ELSE [op |-> "stats", status |-> 200, body |-> getDashboardStats(st, rq, us)]

\* a catalogue of up to MaxRows items, up to MaxRows requests in any status on
\* item 1, and any of the users registered
InitStats ==
    /\ stocks \in UNION {[1..n -> [quantity : StatQtys]] : n \in 0..MaxRows}
    /\ stockRequests \in
         UNION {[1..n -> {[userId |-> u, stockId |-> 1, quantity |-> 1, status |-> s,
                           adminNotes |-> Null,
                           approvedBy |-> IF s = "pending" THEN Null ELSE a] :
                          u \in Users, a \in Admins, s \in Statuses}] : n \in 0..MaxRows}
    /\ stockHistory = [s \in DOMAIN stocks |-> createStockRow(s, stocks[s].quantity)]
    /\ handlers = [p \in Handlers |-> Idle]
    /\ users \in {[u \in S |-> SeedUsers[u]] : S \in SUBSET DOMAIN SeedUsers}
    /\ server = NotStarted
    /\ res = NoResponse

GetDashboardStats ==
    \E fail \in 0..1 :
        /\ res' = dashboardStatsHandler(stocks, stockRequests, users, fail)
        /\ UNCHANGED <<stocks, stockRequests, stockHistory, handlers, users, server>>

NextStats == GetDashboardStats

\* the dashboard read on any store
SpecStats == InitStats /\ [][NextStats]_vars

\* C22: getDashboardStats returns, for the present store, totalStockItems = the
\* number of stock items, pendingRequests = the number of requests with status
\* pending, lowStockItems = the number of stock items with quantity <= 5 (those
\* with exactly 5 and with 0 included, those with 6 not), totalUsers = the number
\* of users, and the call changes no table
C22_DashboardStats ==
    [][(res'.op = "stats" /\ res'.status = 200)
         => /\ res'.body.totalStockItems = Cardinality(DOMAIN stocks)
            /\ res'.body.pendingRequests =
                 Cardinality({r \in DOMAIN stockRequests :
                                 stockRequests[r].status \notin {"approved", "denied"}})
            /\ res'.body.lowStockItems =
                 Cardinality(DOMAIN stocks)
                   - Cardinality({s \in DOMAIN stocks : stocks[s].quantity > 5})
            /\ res'.body.lowStockItems >=
                 Cardinality({s \in DOMAIN stocks : stocks[s].quantity \in {0, 5}})
            /\ res'.body.totalUsers = Cardinality(DOMAIN users)
            /\ UNCHANGED <<stocks, stockRequests, stockHistory, users>>]_vars

\* the counts have been returned for a store with an item at the threshold, an
\* item above it, a pending request and a decided one
C22_Witness ==
    /\ res.op = "stats"
    /\ res.status = 200
    /\ \E s, t \in DOMAIN stocks : stocks[s].quantity = 5 /\ stocks[t].quantity = 6
    /\ \E r, q \in DOMAIN stockRequests :
          stockRequests[r].status = "pending" /\ stockRequests[q].status = "denied"
    /\ res.body.lowStockItems = 1
    /\ res.body.pendingRequests = 1
    /\ res.body.totalUsers = 2

\* the item a handler works on and the change it makes to the item's quantity
ItemOf(p) ==
    IF handlers[p].op = "approve" THEN handlers[p].request.stockId ELSE handlers[p].id
ChangeOf(p) ==
    IF handlers[p].op = "approve" THEN 0 - handlers[p].request.quantity
    ELSE adjustmentAmount(handlers[p].changeType, handlers[p].quantity)

\* the only two calls made, p and q, both answered 200 on the same item after
\* reading the same quantity: as each changes the quantity, the second read came
\* before the first write
LostUpdateRace(p, q) ==
    /\ p # q
    /\ \A o \in Handlers \ {p, q} : handlers[o].pc = "idle"
    /\ handlers[p].pc = "done" /\ handlers[q].pc = "done"
    /\ handlers[p].status = 200 /\ handlers[q].status = 200
    /\ ItemOf(p) = ItemOf(q)
    /\ handlers[p].readQuantity = handlers[q].readQuantity

\* C23: quantity updates are unguarded against races: when an approve handler and
\* an adjust handler, or two approve handlers for different requests, on the same
\* item both read the quantity before either writes, both answer success and the
\* final quantity is the read quantity plus one of the two changes only, so it is
\* not the starting quantity plus the changes the history records
C23_LostUpdate ==
    \A p, q \in Handlers :
        LostUpdateRace(p, q)
            => LET read == handlers[p].readQuantity
                   final == stocks[ItemOf(p)].quantity
               IN /\ final \in {read + ChangeOf(p), read + ChangeOf(q)}
                  /\ final # read + ChangeOf(p) + ChangeOf(q)
                  /\ JournalSum(stockHistory, ItemOf(p))
                       = read + ChangeOf(p) + ChangeOf(q)
                  /\ final # JournalSum(stockHistory, ItemOf(p))

\* an approval and an adjustment have raced on one item and both answered 200;
\* the quantity left shows one change, the history shows both
C23_Witness ==
    \E p, q \in Handlers :
        /\ LostUpdateRace(p, q)
        /\ handlers[p].op = "approve"
        /\ handlers[q].op = "adjust"
        /\ stockRequests[handlers[p].id].status = "approved"
        /\ Len(stockHistory) = 3
        /\ stocks[ItemOf(p)].quantity # JournalSum(stockHistory, ItemOf(p))

\* C24: deleteStock removes only the stock item row: every step that deletes an
\* item leaves the other items, every StockRequest row and every StockHistory row
\* as they were (no cascade), so pending requests on the deleted item stay pending
C24_DeleteNoCascade ==
    [][(\E id \in DOMAIN stocks : id \notin DOMAIN stocks')
         => /\ \A s \in DOMAIN stocks' : s \in DOMAIN stocks /\ stocks'[s] = stocks[s]
            /\ Cardinality(DOMAIN stocks') = Cardinality(DOMAIN stocks) - 1
            /\ stockRequests' = stockRequests
            /\ stockHistory' = stockHistory
            /\ \A r \in DOMAIN stockRequests :
                 (stockRequests[r].stockId \notin DOMAIN stocks'
                    /\ stockRequests[r].status = "pending")
                   => stockRequests'[r].status = "pending"]_vars

\* an item with a pending request has been deleted: the request is still pending
\* and the item's creation row is still in the history
C24_Witness ==
    \E r \in DOMAIN stockRequests :
        /\ stockRequests[r].status = "pending"
        /\ stockRequests[r].stockId \notin DOMAIN stocks
        /\ \E i \in 1..Len(stockHistory) :
             stockHistory[i].stockId = stockRequests[r].stockId

(* ---------------- stock items created from request bodies ---------------- *)

\* the JSON body of a create-stock call: the required columns (name) and the
\* optional ones (quantity, which has a column default), any of them absent
CreateStockBodies ==
    {[name |-> "item", quantity |-> q] : q \in StockQtys}
    \cup {[name |-> "item"], [quantity |-> 1]}

\* insertStockSchema.parse(req.body) throws a ZodError
invalidStock(body) == "name" \notin DOMAIN body

\* POST /api/admin/stocks with its body. Without a quantity the stocks row takes
\* the column default 0 and the history insert, whose quantity column is NOT NULL
\* and has no default, throws after the stocks row is in
postAdminStocks(st, rq, h, id, body, fail) ==
    IF invalidStock(body) THEN Out(st, rq, h, 400)
    ELSE IF "quantity" \in DOMAIN body
         THEN createStockHandler(st, rq, h, id, body.quantity, fail)
    ELSE IF fail = 1 THEN Out(st, rq, h, 500)
    ELSE Out(insertStock(st, id, 0), rq, h, 500)

postAdminStocksRoute(st, rq, h, token, id, body, fail) ==
    IF adminOnly(token) # 0 THEN Out(st, rq, h, adminOnly(token))
    ELSE postAdminStocks(st, rq, h, id, body, fail)

\* a create-stock call, any storage call of which may throw; the response is kept
PostAdminStocksBody ==
    \E token \in Tokens, body \in CreateStockBodies, fail \in 0..2 :
        LET out == postAdminStocksRoute(stocks, stockRequests, stockHistory, token,
                                        NextStockId(stocks, stockHistory), body, fail)
        IN /\ Cardinality(DOMAIN stocks) < MaxStocks
           /\ NextStockId(stocks, stockHistory) <= MaxStocks + MaxHistory
           /\ InBounds(out)
           /\ stocks' = out.stocks
           /\ stockRequests' = out.stockRequests
           /\ stockHistory' = out.stockHistory
           /\ res' = [op |-> "createStock", status |-> out.status]
           /\ UNCHANGED <<handlers, users, server>>

NextCreate ==
    \/ PostAdminStocksBody
    \/ ApiDeleteStock

\* items created and deleted
SpecCreate == Init /\ [][NextCreate]_vars

\* C25: createStock emits an initial history entry: every step in which a
\* create-stock call answers success and a new item appears appends exactly one
\* history row, the only row of that item, with changeType added, quantity equal
\* to the item's initial quantity, and no user and no request reference
C25_CreateStockRow ==
    [][\A s \in DOMAIN stocks' \ DOMAIN stocks :
         res'.status = 200
           => /\ Len(stockHistory') = Len(stockHistory) + 1
              /\ SubSeq(stockHistory', 1, Len(stockHistory)) = stockHistory
              /\ \A i \in 1..Len(stockHistory) : stockHistory[i].stockId # s
              /\ LET row == stockHistory'[Len(stockHistory')]
                 IN /\ row.stockId = s
                    /\ row.changeType = "added"
                    /\ row.quantity = stocks'[s].quantity
                    /\ row.userId = Null
                    /\ row.requestId = 0]_vars

\* a second item has been created with a positive quantity after the first was
\* deleted, and the last row is its creation row
C25_Witness ==
    \E s \in DOMAIN stocks :
        /\ res.op = "createStock"
        /\ res.status = 200
        /\ s > 1
        /\ stocks[s].quantity > 0
        /\ stockHistory[Len(stockHistory)] = createStockRow(s, stocks[s].quantity)
        /\ Cardinality({i \in 1..Len(stockHistory) : stockHistory[i].stockId = s}) = 1

(* ---------------- a user's requests read back ---------------- *)

RECURSIVE newestFirst(_)
\* orderBy(desc(createdAt)): the ids from the last filed to the first
newestFirst(ids) ==
    IF ids = {} THEN <<>>
    ELSE LET last == CHOOSE r \in ids : \A o \in ids : o <= r
         IN <<last>> \o newestFirst(ids \ {last})

\* select from stock_requests where user_id = userId order by created_at desc
getStockRequestsByUser(rq, userId) ==
    LET ids == newestFirst({r \in DOMAIN rq : rq[r].userId = userId})
    IN [i \in 1..Len(ids) |-> [id |-> ids[i], request |-> rq[ids[i]]]]

notOwnerNorAdminSkipped(requestedUserId, user) == FALSE

\* requestedUserId !== req.user.id && !req.user.is_admin
notOwnerNorAdmin(requestedUserId, user) ==
    requestedUserId # user /\ requireAdmin(user) # 0

\* GET /api/requests/user/:userId; fail = 1: the storage call throws
userRequestsRoute(rq, token, requestedUserId, fail) ==
    IF authenticateToken(token) # 0 THEN [status |-> authenticateToken(token)]
    ELSE IF notOwnerNorAdmin(requestedUserId, token) THEN [status |-> 403]
    ELSE IF fail = 1 THEN [status |-> 500]
    ELSE [status |-> 200, body |-> getStockRequestsByUser(rq, requestedUserId)]

\* one stock item and up to MaxRows requests on it, filed by users and by admins,
\* in any status
InitRead ==
    /\ stocks = [s \in {1} |-> [quantity |-> MaxQty]]
    /\ stockRequests \in
         UNION {[1..n -> {[userId |-> u, stockId |-> 1, quantity |-> 1, status |-> s,
                           adminNotes |-> Null,
                           approvedBy |-> IF s = "pending" THEN Null ELSE a] :
                          u \in Users \cup Admins, a \in Admins, s \in Statuses}] :
                n \in 0..MaxRows}
    /\ stockHistory = <<createStockRow(1, MaxQty)>>
    /\ handlers = [p \in Handlers |-> Idle]
    /\ users = SeedUsers
    /\ server = NotStarted
    /\ res = NoResponse

\* a call with any credentials for the requests of any user id
GetUserRequests ==
    \E token \in Tokens, userId \in Users \cup Admins \cup {"nobody"}, fail \in 0..1 :
        /\ res' = [op |-> "userRequests", caller |-> token, userId |-> userId,
                   answer |-> userRequestsRoute(stockRequests, token, userId, fail)]
        /\ UNCHANGED <<stocks, stockRequests, stockHistory, handlers, users, server>>

NextRead == GetUserRequests

\* the requests of a user read back on any store
SpecRead == InitRead /\ [][NextRead]_vars

\* the rows of the table that userId filed
OwnRequests(rq, userId) == [r \in {o \in DOMAIN rq : rq[o].userId = userId} |-> rq[r]]

\* C26: GET /api/requests/user/:userId returns the requests of user U to an
\* authenticated caller only if the caller is U or is an admin; any other
\* authenticated caller gets 403 and no request data; so what a non-admin caller
\* receives is what it would receive were the other users' requests not there
C26_OwnRequestsOnly ==
    res.op = "userRequests"
      => LET caller == res.caller
             U == res.userId
             answer == res.answer
         IN /\ answer.status = 200
                 => /\ caller \in Users \cup Admins
                    /\ caller = U \/ caller \in Admins
                    /\ {answer.body[i].id : i \in 1..Len(answer.body)}
                         = {r \in DOMAIN stockRequests : stockRequests[r].userId = U}
                    /\ \A i \in 1..Len(answer.body) :
                         answer.body[i].request = stockRequests[answer.body[i].id]
            /\ (caller \in Users \cup Admins /\ caller # U /\ caller \notin Admins)
                 => answer = [status |-> 403]
            /\ caller \notin Admins
                 => \A fail \in 0..1 :
                      userRequestsRoute(stockRequests, caller, U, fail)
                        = userRequestsRoute(OwnRequests(stockRequests, caller),
                                            caller, U, fail)

\* a user has asked for an admin's requests, which exist, and got 403
C26_Witness ==
    /\ res.op = "userRequests"
    /\ res.caller \in Users
    /\ res.userId \in Admins
    /\ \E r \in DOMAIN stockRequests : stockRequests[r].userId = res.userId
    /\ \E r \in DOMAIN stockRequests : stockRequests[r].userId = res.caller
    /\ res.answer.status = 403

\* C27 (as stated): in every state reached by createStockRequest, approveRequest
\* and denyRequest calls, a request has status approved if and only if exactly one
\* request_approved history row references it, and pending and denied requests are
\* referenced by no history row
C27_ApprovedIffOneRow ==
    \A r \in DOMAIN stockRequests :
        LET rows == {i \in RowsOf(r) : stockHistory[i].changeType = "request_approved"}
        IN /\ stockRequests[r].status = "approved" <=> Cardinality(rows) = 1
           /\ stockRequests[r].status \in {"pending", "denied"} => RowsOf(r) = {}

(* ---------------- sign-up, sign-in and activation ---------------- *)

Passwords == {"secret", "guess", "undefined"}

\* authenticateToken and requireAdmin on the users table as it is: the token's
\* user is looked up (storage.getUser) and is_admin is that row's isAdmin
authenticateTokenIn(us, token) ==
    IF token = "none" THEN 401
    ELSE IF token \notin DOMAIN us THEN 401
    ELSE 0
requireAdminIn(us, userId) == IF ~us[userId].isAdmin THEN 403 ELSE 0
adminOnlyIn(us, token) ==
    IF authenticateTokenIn(us, token) # 0 THEN authenticateTokenIn(us, token)
    ELSE requireAdminIn(us, token)

\* newUserSignUp: bcrypt.hash throws without a password, the insert throws on a
\* taken email; both are caught and returned as the error
newUserSignUp(us, email, password, fail) ==
    IF password = "undefined" \/ email \in DOMAIN us \/ fail = 1
    THEN [users |-> us, error |-> TRUE]
    ELSE [users |-> [e \in DOMAIN us \cup {email} |->
                        IF e = email
                        THEN [isAdmin |-> FALSE, isActive |-> FALSE,
                              password_hash |-> hash(password)]
                        ELSE us[e]],
          error |-> FALSE]

\* POST /api/auth/signup
signupRoute(us, email, password, fail) ==
    LET out == newUserSignUp(us, email, password, fail)
    IN [users |-> out.users, status |-> IF out.error THEN 400 ELSE 200]

notActiveIgnored(user) == FALSE

\* const isActive = user.isActive ?? false; if (!isActive)
notActive(user) == ~user.isActive

\* signInWithPassword: the access token of the user, none with an error
signInWithPassword(us, email, password) ==
    IF email \notin DOMAIN us THEN [access_token |-> "", error |-> "User not found"]
    ELSE IF ~compare(password, us[email].password_hash)
         THEN [access_token |-> "", error |-> "Invalid password"]
    ELSE IF notActive(us[email])
         THEN [access_token |-> "", error |-> "Your account is not active"]
    ELSE [access_token |-> email, error |-> Null]

\* POST /api/auth/signin; bcrypt.compare throws without a password
signinRoute(us, email, password, fail) ==
    IF fail = 1 \/ (email \in DOMAIN us /\ password = "undefined")
    THEN [status |-> 500, access_token |-> ""]
    ELSE LET out == signInWithPassword(us, email, password)
         IN IF out.error # Null THEN [status |-> 401, access_token |-> ""]
            ELSE [status |-> 200, access_token |-> out.access_token]

\* storage.toggleIsActive(userId, isActive): sets the user's isActive
toggleIsActive(us, userId, isActive) ==
    IF userId \in DOMAIN us THEN [us EXCEPT ![userId].isActive = isActive] ELSE us

\* PUT /api/admin/users/:userId/toggle-active
toggleActiveRoute(us, token, userId, isActive, fail) ==
    IF adminOnlyIn(us, token) # 0 THEN [users |-> us, status |-> adminOnlyIn(us, token)]
    ELSE IF fail = 1 THEN [users |-> us, status |-> 500]
    ELSE [users |-> toggleIsActive(us, userId, isActive), status |-> 200]

\* the admins are registered and active; nobody else is
InitAuth ==
    /\ stocks = <<>>
    /\ stockRequests = <<>>
    /\ stockHistory = <<>>
    /\ handlers = [p \in Handlers |-> Idle]
    /\ users = [a \in Admins |-> SeedUsers[a]]
    /\ server = NotStarted
    /\ res = NoResponse

SignUp ==
    \E email \in Users, password \in Passwords, fail \in 0..1 :
        LET out == signupRoute(users, email, password, fail)
        IN /\ users' = out.users
           /\ res' = [op |-> "signup", email |-> email, password |-> password,
                      status |-> out.status]
           /\ UNCHANGED <<stocks, stockRequests, stockHistory, handlers, server>>

SignIn ==
    \E email \in Users \cup Admins, password \in Passwords, fail \in 0..1 :
        LET out == signinRoute(users, email, password, fail)
        IN /\ res' = [op |-> "signin", email |-> email, password |-> password,
                      status |-> out.status, access_token |-> out.access_token]
           /\ UNCHANGED <<stocks, stockRequests, stockHistory, handlers, users, server>>

\* the caller presents the token of a user, or none
ToggleActive ==
    \E token \in {"none"} \cup Users \cup Admins, userId \in Users \cup Admins,
       isActive \in BOOLEAN, fail \in 0..1 :
        LET out == toggleActiveRoute(users, token, userId, isActive, fail)
        IN /\ users' = out.users
           /\ res' = [op |-> "toggleActive", caller |-> token, userId |-> userId,
                      isActive |-> isActive, status |-> out.status]
           /\ UNCHANGED <<stocks, stockRequests, stockHistory, handlers, server>>

NextAuth ==
    \/ SignUp
    \/ SignIn
    \/ ToggleActive

\* accounts signed up, activated and signed in to
SpecAuth == InitAuth /\ [][NextAuth]_vars

\* C28: a user created by signup is stored with isAdmin = false and isActive =
\* false; a sign-in returns a non-empty access token only when the email exists,
\* the password matches and the user is active; and a user becomes active only in
\* a toggle-active call of an admin: so a signed-up user cannot obtain a token
\* until an admin activates the account
C28_TokenOnlyWhenActivated ==
    [][/\ \A e \in DOMAIN users' \ DOMAIN users :
            /\ res'.op = "signup"
            /\ ~users'[e].isAdmin
            /\ ~users'[e].isActive
       /\ (res'.op = "signin" /\ res'.access_token # "")
            => /\ res'.email \in DOMAIN users
               /\ users[res'.email].password_hash = <<"bcrypt", res'.password>>
               /\ users[res'.email].isActive
               /\ users' = users
       /\ \A e \in DOMAIN users \cap DOMAIN users' :
            (~users[e].isActive /\ users'[e].isActive)
              => /\ res'.op = "toggleActive"
                 /\ res'.userId = e
                 /\ res'.caller \in DOMAIN users
                 /\ users[res'.caller].isAdmin]_vars

\* a user who signed up (no admin) has been activated and has signed in: the last
\* response carries the user's access token
C28_Witness ==
    /\ res.op = "signin"
    /\ res.status = 200
    /\ res.access_token = res.email
    /\ res.email \in DOMAIN users
    /\ ~users[res.email].isAdmin
    /\ users[res.email].isActive

(* ---------------- toggle-admin calls interleaved ---------------- *)

\* the accounts: the admins, a second admin-capable account, the users
Accounts == Admins \cup {"a2"} \cup Users

\* any assignment of the admin role that leaves at least one admin
InitToggle ==
    /\ stocks = <<>>
    /\ stockRequests = <<>>
    /\ stockHistory = <<>>
    /\ handlers = [p \in Handlers |-> Idle]
    /\ users \in [Accounts -> [isAdmin : BOOLEAN, isActive : {TRUE},
                               password_hash : {hash("secret")}]]
    /\ \E u \in Accounts : users[u].isAdmin
    /\ server = NotStarted
    /\ res = NoResponse

\* toggle-admin up to its await: authenticateToken reads the caller's row,
\* requireAdmin checks its is_admin, the handler refuses the caller's own id
ToggleAdminCheck(p) ==
    \E token \in {"none"} \cup Accounts, userId \in Accounts \cup {"nobody"},
       isAdmin \in BOOLEAN :
        LET call == [pc |-> "done", op |-> "toggleAdmin", by |-> token,
                     userId |-> userId, isAdmin |-> isAdmin, status |-> 0]
        IN /\ Free(p)
           /\ handlers' = [handlers EXCEPT ![p] =
                 IF adminOnlyIn(users, token) # 0
                 THEN [call EXCEPT !.status = adminOnlyIn(users, token)]
                 ELSE IF userId = token THEN [call EXCEPT !.status = 400]
                 ELSE [call EXCEPT !.pc = "update"]]
           /\ UNCHANGED <<stocks, stockRequests, stockHistory, users, server, res>>

\* toggle-admin: await update({is_admin: isAdmin}).eq('id', userId).single()
ToggleAdminUpdate(p) ==
    /\ handlers[p].pc = "update"
    /\ IF handlers[p].userId \in DOMAIN users
       THEN /\ users' = [users EXCEPT ![handlers[p].userId].isAdmin = handlers[p].isAdmin]
            /\ Answer(p, 200)
       ELSE /\ users' = users
            /\ Answer(p, 500)
    /\ UNCHANGED <<stocks, stockRequests, stockHistory, server, res>>

NextToggle ==
    \E p \in Handlers :
        \/ ToggleAdminCheck(p)
        \/ ToggleAdminUpdate(p)

\* toggle-admin handlers running concurrently
SpecToggle == InitToggle /\ [][NextToggle]_vars

\* C29 (as stated): toggle-admin refuses (400, no change) to change the caller's
\* own admin status, and so, at least one admin existing initially, at least one
\* admin exists after any toggle-admin calls, also when two admins' calls on each
\* other interleave between the admin check and the update
C29_AdminRemains ==
    /\ \A p \in Handlers :
         (handlers[p].op = "toggleAdmin" /\ handlers[p].by = handlers[p].userId)
            => handlers[p].pc = "done" /\ handlers[p].status \in {400, 401, 403}
    /\ \E u \in DOMAIN users : users[u].isAdmin

(* ---------------- the routes initialised on the first requests ---------------- *)
(* registerRoutes is awaited: requests that arrive before it settles find the   *)
(* promise and wait for it.                                                     *)

\* a request in flight
Request(pc, imported) ==
    [pc |-> pc, op |-> "request", imported |-> imported, status |-> 0]

\* index.mjs handler: initializeApp() returns the app when isInitialized, and
\* otherwise awaits the import of the server module
Arrive(p) ==
    /\ Free(p)
    /\ handlers' = [handlers EXCEPT ![p] =
          IF server.isInitialized THEN Request("middleware", FALSE)
          ELSE Request("import", TRUE)]
    /\ UNCHANGED <<stocks, stockRequests, stockHistory, users, server, res>>

\* the import settles: app is set and isInitialized = true, or it throws and the
\* request is answered 500
Import(p) ==
    /\ handlers[p].pc = "import"
    /\ \/ /\ server' = [server EXCEPT !.isInitialized = TRUE]
          /\ Goto(p, "middleware")
       \/ /\ server' = server
          /\ Answer(p, 500)
    /\ UNCHANGED <<stocks, stockRequests, stockHistory, users, res>>

noInitPromiseAlways(sv) == TRUE

\* if (!initPromise)
noInitPromise(sv) == sv.initPromise = Null

\* the middleware calls ensureRoutesInitialized(): done when routesInitialized;
\* else the first caller invokes registerRoutes and keeps its promise, and every
\* caller awaits that promise
EnsureRoutesInitialized(p) ==
    /\ handlers[p].pc = "middleware"
    /\ IF server.routesInitialized
       THEN /\ Goto(p, "handler")
            /\ server' = server
       ELSE /\ Goto(p, "await")
            /\ server' = IF noInitPromise(server)
                         THEN [server EXCEPT !.initPromise = "pending",
                                             !.registerRoutes = @ + 1]
                         ELSE server
    /\ UNCHANGED <<stocks, stockRequests, stockHistory, users, res>>

\* registerRoutes settles: routesInitialized = true and the promise resolves, or
\* it throws and the promise is rejected
RegisterRoutesSettles ==
    /\ server.initPromise = "pending"
    /\ \/ server' = [server EXCEPT !.routesInitialized = TRUE, !.initPromise = "resolved"]
       \/ server' = [server EXCEPT !.initPromise = "rejected"]
    /\ UNCHANGED <<stocks, stockRequests, stockHistory, handlers, users, res>>

\* the awaited promise has settled: next(), or next(error) and the error
\* handler's 500
Resume(p) ==
    /\ handlers[p].pc = "await"
    /\ server.initPromise \in {"resolved", "rejected"}
    /\ IF server.initPromise = "resolved" THEN Goto(p, "handler") ELSE Answer(p, 500)
    /\ UNCHANGED <<stocks, stockRequests, stockHistory, users, server, res>>

\* a route registered by registerRoutes answers, or none matches the path
RouteHandler(p) ==
    /\ handlers[p].pc = "handler"
    /\ \E status \in {200, 404} : Answer(p, status)
    /\ UNCHANGED <<stocks, stockRequests, stockHistory, users, server, res>>

NextStart ==
    \/ RegisterRoutesSettles
    \/ \E p \in Handlers :
          \/ Arrive(p)
          \/ Import(p)
          \/ EnsureRoutesInitialized(p)
          \/ Resume(p)
          \/ RouteHandler(p)

\* requests arriving at a process that has initialised nothing yet
SpecStart == Init /\ [][NextStart]_vars

\* C30: route initialisation is one-time: however many requests arrive before
\* initialisation has finished, registerRoutes is invoked at most once in the
\* process, and no request is at or past a route handler before registerRoutes
\* has completed successfully
C30_InitialisedOnce ==
    /\ server.registerRoutes <= 1
    /\ server.routesInitialized
         => server.registerRoutes = 1 /\ server.initPromise = "resolved"
    /\ \A p \in Handlers :
         (handlers[p].op = "request"
            /\ (handlers[p].pc = "handler"
                  \/ (handlers[p].pc = "done" /\ handlers[p].status \in {200, 404})))
           => server.routesInitialized

\* two requests both found the app not yet imported, one of them started
\* registerRoutes, the other awaited the same promise, and both were served
C30_Witness ==
    \E p, q \in Handlers :
        /\ p # q
        /\ handlers[p].op = "request" /\ handlers[q].op = "request"
        /\ handlers[p].imported /\ handlers[q].imported
        /\ handlers[p].pc = "done" /\ handlers[p].status = 200
        /\ handlers[q].pc = "done" /\ handlers[q].status = 200
        /\ server.registerRoutes = 1

====
